---- MODULE Spec2Model ----
(***************************************************************************)
(* A model of hfit: the HTML segmenter / semantic-block extractor /         *)
(* renderers / orchestrator of src/hfit/html_processor.py and the           *)
(* translation backends of src/hfit/translation_services.py.                *)
(*                                                                          *)
(* The document is an arena of nodes (a BeautifulSoup tree): node 1 is the  *)
(* BeautifulSoup object, every node has a kind, an upper-cased tag name, an *)
(* attribute set, a text (a sequence of tokens, " " being whitespace), an   *)
(* ordered child list and a parent back-reference.  Detached copies and     *)
(* input documents are terms (the same record with terms as children).      *)
(***************************************************************************)
EXTENDS Integers, Sequences, FiniteSets, TLC

\* ------------------------------------------------------------------ bounds
MaxKids == 2       \* children of the input document's content root
MaxRuns == 2       \* runs of translate_html_content chained on their own output
MaxDrop == 1       \* strings a non-conforming collaborator may leave out
MaxTexts == 2      \* length of the list handed to a backend's translate_batch
MaxChars == 4      \* length of a string handed to escape_html
MaxCalls == 4      \* calls of _find_sid on one backend

\* --------------------------------------------------------------- config.py
HTML_TAGS_NO_TRANSLATE == {"TITLE", "SCRIPT", "STYLE", "TEXTAREA", "SVG"}

HTML_TAGS_INLINE_IGNORE == {"BR", "CODE", "KBD", "WBR"}

HTML_TAGS_INLINE_TEXT ==
    {"A", "ABBR", "ACRONYM", "B", "BDO", "BIG", "CITE", "DFN", "EM", "I", "LABEL",
     "Q", "S", "SMALL", "SPAN", "STRONG", "SUB", "SUP", "U", "TT", "VAR"}

\* generate_session_id: a fresh uuid4 per HTMLProcessor; two possible values
SessionIds == {"sid1", "sid2"}

\* ------------------------------------------------------------ terms, text
Elem(tag, attrs, kids) ==
    [kind |-> "elem", tag |-> tag, attrs |-> attrs, txt |-> <<>>, kids |-> kids]

Text(s) == [kind |-> "text", tag |-> "", attrs |-> {}, txt |-> s, kids |-> <<>>]

Cmt(s) == [kind |-> "cmt", tag |-> "", attrs |-> {}, txt |-> s, kids |-> <<>>]

\* html.parser joins adjacent character data into one text node
RECURSIVE MergeText(_)
MergeText(ks) ==
    IF Len(ks) < 2 THEN ks
    ELSE IF ks[1].kind = "text" /\ ks[2].kind = "text"
         THEN MergeText(<<Text(ks[1].txt \o ks[2].txt)>> \o SubSeq(ks, 3, Len(ks)))
         ELSE <<ks[1]>> \o MergeText(Tail(ks))

\* a markup string parsed again: empty character data vanishes and adjacent
\* character data becomes one text node, at every level
RECURSIVE ParseFragment(_)
ParseFragment(ks) ==
    LET nonEmpty == SelectSeq(ks, LAMBDA k : k.kind # "text" \/ k.txt # <<>>)
        merged == MergeText(nonEmpty)
    IN [i \in 1..Len(merged) |->
            IF merged[i].kind = "elem"
            THEN [merged[i] EXCEPT !.kids = ParseFragment(@)]
            ELSE merged[i]]

\* the characters of an opening tag, as they stand in a string
OpenTag == "<i>"

\* a string put into markup as it is and parsed (html.parser): an opening tag in
\* it becomes an element, which holds what follows up to the end of the
\* enclosing element; the rest is character data
RECURSIVE ParseString(_)
ParseString(s) ==
    IF s = <<>> THEN <<>>
    ELSE IF \E i \in 1..Len(s) : s[i] = OpenTag
    THEN LET i == CHOOSE i \in 1..Len(s) :
                      s[i] = OpenTag /\ \A j \in 1..(i - 1) : s[j] # OpenTag
         IN (IF i > 1 THEN <<Text(SubSeq(s, 1, i - 1))>> ELSE <<>>)
            \o <<Elem("I", {}, ParseString(SubSeq(s, i + 1, Len(s))))>>
    ELSE <<Text(s)>>

RECURSIVE lstrip(_)
lstrip(s) == IF s # <<>> /\ Head(s) = " " THEN lstrip(Tail(s)) ELSE s

RECURSIVE rstrip(_)
rstrip(s) ==
    IF s # <<>> /\ s[Len(s)] = " " THEN rstrip(SubSeq(s, 1, Len(s) - 1)) ELSE s

\* str.strip()
strip(s) == rstrip(lstrip(s))

\* the attribute values of class that list the class notranslate
NoTranslateClasses ==
    {"notranslate",
     "notranslate hfit-target-wrapper",
     "notranslate hfit-target-translation-theme-none hfit-target-translation-block-wrapper-theme-none hfit-target-translation-block-wrapper",
     "notranslate hfit-target-inner hfit-target-translation-theme-none-inner"}

\* ------------------------------------------------------------ the arena
IsTag(t, n) == t[n].kind = "elem"

\* isinstance(x, NavigableString): text and comment leaves
IsNavigableString(t, n) == t[n].kind \in {"text", "cmt"}

IsComment(t, n) == t[n].kind = "cmt"

has_attr(t, n, a) == \E p \in t[n].attrs : p[1] = a

set_attr(t, n, a, v) ==
    [t EXCEPT ![n].attrs = {p \in @ : p[1] # a} \cup {<<a, v>>}]

\* Tag.index: position of a child among its parent's contents, by identity
IndexIn(s, x) == CHOOSE i \in 1..Len(s) : s[i] = x

InsertSeq(s, i, x) == SubSeq(s, 1, i - 1) \o <<x>> \o SubSeq(s, i, Len(s))

RemoveAt(s, i) == SubSeq(s, 1, i - 1) \o SubSeq(s, i + 1, Len(s))

\* PageElement.next_sibling (0 for None)
next_sibling(t, n) ==
    IF t[n].par = 0 THEN 0
    ELSE LET ks == t[t[n].par].kids
             i == IndexIn(ks, n)
         IN IF i < Len(ks) THEN ks[i + 1] ELSE 0

\* soup.new_tag: a detached element appended to the arena; its id is Len(t)+1
new_tag(t, tag, attrs) ==
    Append(t, [kind |-> "elem", tag |-> tag, attrs |-> attrs, txt |-> <<>>,
               kids |-> <<>>, par |-> 0])

\* Tag.insert(position, child), positions counted from 1
insert_at(t, p, i, c) ==
    [t EXCEPT ![p].kids = InsertSeq(@, i, c), ![c].par = p]

\* PageElement.insert_before / insert_after / append
insert_before(t, ref, c) == insert_at(t, t[ref].par, IndexIn(t[t[ref].par].kids, ref), c)

insert_after(t, ref, c) ==
    insert_at(t, t[ref].par, IndexIn(t[t[ref].par].kids, ref) + 1, c)

append_child(t, p, c) == insert_at(t, p, Len(t[p].kids) + 1, c)

\* PageElement.extract
extract(t, n) ==
    IF t[n].par = 0 THEN t
    ELSE [t EXCEPT ![t[n].par].kids = RemoveAt(@, IndexIn(@, n)), ![n].par = 0]

\* PageElement.replace_with
replace_with(t, old, new) ==
    LET p == t[old].par
        i == IndexIn(t[p].kids, old)
    IN [t EXCEPT ![p].kids = [@ EXCEPT ![i] = new], ![new].par = p, ![old].par = 0]

\* the parser / copy.deepcopy: a term loaded into the arena in document order
RECURSIVE Load(_, _, _)
RECURSIVE LoadKids(_, _, _, _)
Load(t, term, par) ==
    LoadKids(Append(t, [kind |-> term.kind, tag |-> term.tag, attrs |-> term.attrs,
                        txt |-> term.txt, kids |-> <<>>, par |-> par]),
             Len(t) + 1, term.kids, 1)

LoadKids(t, id, ks, i) ==
    IF i > Len(ks) THEN t
    ELSE LET cid == Len(t) + 1
             t1 == Load(t, ks[i], id)
         IN LoadKids([t1 EXCEPT ![id].kids = Append(@, cid)], id, ks, i + 1)

\* the subtree of n as a term (str(n) / copy.deepcopy(n))
RECURSIVE TermOf(_, _)
TermOf(t, n) ==
    [kind |-> t[n].kind, tag |-> t[n].tag, attrs |-> t[n].attrs, txt |-> t[n].txt,
     kids |-> [i \in 1..Len(t[n].kids) |-> TermOf(t, t[n].kids[i])]]

\* Tag.__hash__ is hash(str(tag)): the serialisation, comments told from text
HashOf(t, n) == TermOf(t, n)

\* what == compares: a Comment is a str and equals a text leaf of the same content
RECURSIVE EqNorm(_)
EqNorm(term) ==
    [term EXCEPT !.kind = IF @ = "cmt" THEN "text" ELSE @,
                 !.kids = [i \in 1..Len(term.kids) |-> EqNorm(term.kids[i])]]

\* Tag.__eq__ / str.__eq__: same name, attributes and contents, recursively
PyEq(t, a, b) == a = b \/ EqNorm(TermOf(t, a)) = EqNorm(TermOf(t, b))

\* x in <list>: identity or ==, element by element
InList(t, s, x) == \E i \in 1..Len(s) : PyEq(t, s[i], x)

\* x in <set of elements>: an entry stored under the same hash that is == now
InSet(t, set, x) == \E e \in set : e.h = HashOf(t, x) /\ PyEq(t, e.id, x)

\* set.add
SetAdd(t, set, x) ==
    IF InSet(t, set, x) THEN set ELSE set \cup {[id |-> x, h |-> HashOf(t, x)]}

RECURSIVE IsAncestor(_, _, _)
IsAncestor(t, a, n) ==
    t[n].par # 0 /\ (t[n].par = a \/ IsAncestor(t, a, t[n].par))

\* ------------------------------------------- _find_paragraphs (segmenter)
\* The walk's state S: the tree t, paragraphs_to_translate (list), the set
\* marked_elements (marked), just_saw_br[0] (jsb) and self.session_id (sid).
is_no_translate(t, e) ==
    /\ IsTag(t, e)
    /\ \/ t[e].tag \in HTML_TAGS_NO_TRANSLATE
       \/ \E p \in t[e].attrs : p[1] = "class" /\ p[2] \in NoTranslateClasses
       \/ <<"translate", "no">> \in t[e].attrs

mark_as_paragraph(S, e) ==
    IF ~InSet(S.t, S.marked, e) /\ IsTag(S.t, e)
    THEN LET t1 == IF has_attr(S.t, e, "data-hfit-paragraph") THEN S.t
                   ELSE set_attr(S.t, e, "data-hfit-paragraph", "1")
             t2 == IF has_attr(t1, e, "data-hfit-walked") THEN t1
                   ELSE set_attr(t1, e, "data-hfit-walked", S.sid)
         IN IF ~InList(t2, S.list, e)
            THEN [S EXCEPT !.t = t2, !.list = Append(@, e),
                           !.marked = SetAdd(t2, @, e)]
            ELSE [S EXCEPT !.t = t2]
    ELSE S

\* the text nodes that follow a <br>, up to the next <br> or non-text sibling
RECURSIVE br_text_nodes(_, _, _)
br_text_nodes(t, current, acc) ==
    IF current = 0 \/ ~IsNavigableString(t, current) THEN acc
    ELSE LET acc1 == IF strip(t[current].txt) # <<>> THEN Append(acc, current) ELSE acc
             nxt == next_sibling(t, current)
         IN IF nxt # 0 /\ IsTag(t, nxt) /\ t[nxt].tag = "BR" THEN acc1
            ELSE br_text_nodes(t, nxt, acc1)

RECURSIVE join_text(_, _)
join_text(t, ns) == IF ns = <<>> THEN <<>> ELSE t[Head(ns)].txt \o join_text(t, Tail(ns))

RECURSIVE extract_all(_, _)
extract_all(t, ns) == IF ns = <<>> THEN t ELSE extract_all(extract(t, Head(ns)), Tail(ns))

\* the synthetic <span data-hfit-generated> built around the text after a <br>
wrap_br_text(S, text_nodes) ==
    LET span == Len(S.t) + 1
        str == span + 1
        t1 == new_tag(S.t, "SPAN", {<<"data-hfit-generated", "1">>})
        t2 == Append(t1, [kind |-> "text", tag |-> "", attrs |-> {},
                          txt |-> join_text(S.t, text_nodes), kids |-> <<>>, par |-> 0])
        t3 == append_child(t2, span, str)
        t4 == replace_with(t3, Head(text_nodes), span)
        t5 == extract_all(t4, Tail(text_nodes))
    IN mark_as_paragraph([S EXCEPT !.t = t5], span)

RECURSIVE process_element(_, _, _)
RECURSIVE process_children(_, _, _)
\* the first pass with the flag left as the children set it
process_element_unscoped(S, e, parent) ==
    IF is_no_translate(S.t, e) THEN S
    ELSE IF IsTag(S.t, e) /\ S.t[e].tag = "BR"
    THEN LET S1 == [S EXCEPT !.jsb = TRUE]
             nxt == next_sibling(S.t, e)
             text_nodes == br_text_nodes(S.t, nxt, <<>>)
         IN IF parent # 0 /\ nxt # 0 /\ IsNavigableString(S.t, nxt) /\ text_nodes # <<>>
            THEN wrap_br_text(S1, text_nodes)
            ELSE S1
    ELSE IF ~IsTag(S.t, e) THEN S
    ELSE LET is_non_inline == /\ S.t[e].tag \notin HTML_TAGS_INLINE_TEXT
                              /\ S.t[e].tag \notin HTML_TAGS_INLINE_IGNORE
             S1 == IF is_non_inline \/ S.jsb
                   THEN [mark_as_paragraph(S, e) EXCEPT !.jsb = FALSE]
                   ELSE S
             S2 == process_children(S1, e, 1)
         IN [S2 EXCEPT !.jsb = IF is_non_inline THEN TRUE ELSE S2.jsb]

process_element(S, e, parent) ==
    IF is_no_translate(S.t, e) THEN S
    ELSE IF IsTag(S.t, e) /\ S.t[e].tag = "BR"
    THEN LET S1 == [S EXCEPT !.jsb = TRUE]
             nxt == next_sibling(S.t, e)
             text_nodes == br_text_nodes(S.t, nxt, <<>>)
         IN IF parent # 0 /\ nxt # 0 /\ IsNavigableString(S.t, nxt) /\ text_nodes # <<>>
            THEN wrap_br_text(S1, text_nodes)
            ELSE S1
    ELSE IF ~IsTag(S.t, e) THEN S
    ELSE LET is_non_inline == /\ S.t[e].tag \notin HTML_TAGS_INLINE_TEXT
                              /\ S.t[e].tag \notin HTML_TAGS_INLINE_IGNORE
             S1 == IF is_non_inline \/ S.jsb
                   THEN [mark_as_paragraph(S, e) EXCEPT !.jsb = FALSE]
                   ELSE S
             previous_br_state == S1.jsb
             S2 == process_children(S1, e, 1)
         IN [S2 EXCEPT !.jsb = IF is_non_inline THEN TRUE ELSE previous_br_state]

\* for child in element.children: a list iterator over the live contents
process_children(S, e, i) ==
    IF i > Len(S.t[e].kids) THEN S
    ELSE process_children(process_element(S, S.t[e].kids[i], e), e, i + 1)

\* second pass: the container of a text leaf, climbing unmarked inline-text tags
RECURSIVE text_container(_, _)
text_container(S, c) ==
    IF c # 0 /\ IsTag(S.t, c) /\ S.t[c].tag \in HTML_TAGS_INLINE_TEXT
       /\ ~InSet(S.t, S.marked, c)
    THEN text_container(S, S.t[c].par)
    ELSE c

RECURSIVE find_text_elements(_, _)
RECURSIVE find_text_children(_, _, _)
find_text_elements(S, e) ==
    LET S1 == IF S.t[e].kind = "text" /\ strip(S.t[e].txt) # <<>>
              THEN LET container == text_container(S, S.t[e].par)
                   IN IF container # 0 /\ IsTag(S.t, container)
                         /\ ~InSet(S.t, S.marked, container)
                      THEN mark_as_paragraph(S, container)
                      ELSE S
              ELSE S
    IN IF IsTag(S1.t, e) /\ S1.t[e].tag \notin HTML_TAGS_NO_TRANSLATE
       THEN find_text_children(S1, e, 1)
       ELSE S1

find_text_children(S, e, i) ==
    IF i > Len(S.t[e].kids) THEN S
    ELSE find_text_children(find_text_elements(S, S.t[e].kids[i]), e, i + 1)

\* soup.find(name): the first element of that name in document order (0: None)
RECURSIVE find_tag(_, _, _)
RECURSIVE find_tag_in(_, _, _, _)
find_tag(t, n, tag) ==
    IF IsTag(t, n) /\ t[n].tag = tag /\ n # 1 THEN n ELSE find_tag_in(t, n, tag, 1)

find_tag_in(t, n, tag, i) ==
    IF i > Len(t[n].kids) THEN 0
    ELSE LET r == find_tag(t, t[n].kids[i], tag)
         IN IF r # 0 THEN r ELSE find_tag_in(t, n, tag, i + 1)

\* _find_paragraphs(soup): both passes from soup.body, or from soup without a body
find_paragraphs(t, sid) ==
    LET body == find_tag(t, 1, "BODY")
        root == IF body # 0 THEN body ELSE 1
        S0 == [t |-> t, list |-> <<>>, marked |-> {}, jsb |-> FALSE, sid |-> sid]
        S1 == process_element(S0, root, 0)
    IN find_text_elements(S1, root)

\* ----------------------------------- _extract_semantic_blocks (extractor)
\* The walk's state X: the tree t, current_text_nodes (cur), semantic_blocks;
\* history: the next_paragraph_element of each flush that made a block
\* (bounding), whether its marker was appended to the common ancestor for want
\* of a place (appended), and the leaves in progress at each flush that made
\* no block (dropped).
RECURSIVE AncestorsOf(_, _)
AncestorsOf(t, n) ==
    IF t[n].par = 0 THEN <<>> ELSE <<t[n].par>> \o AncestorsOf(t, t[n].par)

\* while current and not found: the first of current, current.parent, ... that is
\* `in ancestors` (0: none)
RECURSIVE first_in_ancestors(_, _, _)
first_in_ancestors(t, current, ancestors) ==
    IF current = 0 THEN 0
    ELSE IF InList(t, ancestors, current) THEN current
    ELSE first_in_ancestors(t, t[current].par, ancestors)

\* list.index(x): the first position holding an element == x
ListIndex(t, s, x) == CHOOSE i \in 1..Len(s) :
    PyEq(t, s[i], x) /\ \A j \in 1..(i - 1) : ~PyEq(t, s[j], x)

RECURSIVE common_ancestor_loop(_, _, _, _)
common_ancestor_loop(t, rest, ancestors, common_ancestor) ==
    IF rest = <<>> THEN common_ancestor
    ELSE LET current == first_in_ancestors(t, t[Head(rest)].par, ancestors)
         IN IF current = 0 THEN 0
            ELSE common_ancestor_loop(t, Tail(rest),
                     SubSeq(ancestors, ListIndex(t, ancestors, current), Len(ancestors)),
                     current)

find_minimum_common_ancestor(t, nodes) ==
    IF nodes = <<>> THEN 0
    ELSE IF Len(nodes) = 1 THEN t[nodes[1]].par
    ELSE common_ancestor_loop(t, Tail(nodes), AncestorsOf(t, nodes[1]), 0)

\* n.parent == common_ancestor
ParentIs(t, n, ca) == t[n].par # 0 /\ PyEq(t, t[n].par, ca)

\* no climb: the last text leaf itself
last_text_itself(t, n, ca) == n

\* the climb from the last text leaf to the direct child of the common ancestor
RECURSIVE node_to_insert_after(_, _, _)
node_to_insert_after(t, n, ca) ==
    IF ParentIs(t, n, ca) THEN n
    ELSE LET p == t[n].par
         IN IF p = 0 \/ has_attr(t, p, "data-hfit-paragraph") THEN 0
            ELSE node_to_insert_after(t, p, ca)

\* a flush that records the block and inserts no end marker
finish_current_block_unmarked(X, next_paragraph_element) ==
    LET common_ancestor == find_minimum_common_ancestor(X.t, X.cur)
    IN IF X.cur = <<>> \/ common_ancestor = 0 THEN X
       ELSE [X EXCEPT !.bounding = Append(@, next_paragraph_element),
                      !.appended = Append(@, FALSE),
                      !.blocks = Append(@, [nodes |-> X.cur,
                                            common_ancestor |-> common_ancestor,
                                            end_marker |-> 0]),
                      !.cur = <<>>]

finish_current_block(X, next_paragraph_element) ==
    LET common_ancestor == find_minimum_common_ancestor(X.t, X.cur)
        end_marker == Len(X.t) + 1
        t1 == new_tag(X.t, "SPAN", {<<"data-hfit-block-end-marker", "1">>,
                                    <<"style", "display:none;">>})
        last_text == X.cur[Len(X.cur)]
        after == node_to_insert_after(X.t, last_text, common_ancestor)
        t2 == IF next_paragraph_element # 0
              THEN insert_before(t1, next_paragraph_element, end_marker)
              ELSE IF after # 0 THEN insert_after(t1, after, end_marker)
              ELSE IF ParentIs(X.t, last_text, common_ancestor)
                   THEN insert_after(t1, last_text, end_marker)
                   ELSE append_child(t1, common_ancestor, end_marker)
    IN IF X.cur = <<>> THEN X
       ELSE IF common_ancestor = 0 THEN [X EXCEPT !.dropped = Append(@, X.cur)]
       ELSE [X EXCEPT !.t = t2,
                      !.bounding = Append(@, next_paragraph_element),
                      !.appended = Append(@, /\ next_paragraph_element = 0
                                             /\ after = 0
                                             /\ ~ParentIs(X.t, last_text, common_ancestor)),
                      !.blocks = Append(@, [nodes |-> X.cur,
                                            common_ancestor |-> common_ancestor,
                                            end_marker |-> end_marker]),
                      !.cur = <<>>]

RECURSIVE collect_nodes(_, _, _)
RECURSIVE collect_children(_, _, _)
collect_nodes(X, element, is_top_level) ==
    IF ~is_top_level /\ IsTag(X.t, element) /\ has_attr(X.t, element, "data-hfit-paragraph")
    THEN IF X.cur # <<>> THEN finish_current_block(X, element) ELSE X
    ELSE IF X.t[element].kind = "text" /\ strip(X.t[element].txt) # <<>>
    THEN [X EXCEPT !.cur = Append(@, element)]
    ELSE IF IsTag(X.t, element)
    THEN LET X1 == collect_children(X, element, 1)
         IN IF ~is_top_level /\ X1.cur # <<>>
               /\ X1.t[element].tag \notin HTML_TAGS_INLINE_TEXT
            THEN finish_current_block(X1, 0)
            ELSE X1
    ELSE X

\* for child in element.children: a list iterator over the live contents, which
\* finish_current_block lengthens while the loop runs
collect_children(X, element, i) ==
    IF i > Len(X.t[element].kids) THEN X
    ELSE collect_children(collect_nodes(X, X.t[element].kids[i], FALSE), element, i + 1)

\* _extract_semantic_blocks(paragraph); raises when paragraph.parent is None
extract_raises(t, paragraph) == t[paragraph].par = 0

extract_semantic_blocks(t, paragraph) ==
    LET X == collect_nodes([t |-> t, cur |-> <<>>, blocks |-> <<>>,
                            bounding |-> <<>>, appended |-> <<>>, dropped |-> <<>>],
                           paragraph, TRUE)
    IN IF X.cur # <<>> THEN finish_current_block(X, 0) ELSE X

\* ------------------------------------------------------------- renderers
IsEndMarkerTerm(c) == \E p \in c.attrs : p[1] = "data-hfit-block-end-marker"

\* child in nodes_to_keep_with_ancestors: a set of the ORIGINAL leaves and of
\* their ancestors, looked up with a node of the copy, hence by hash and ==
InKeep(c, keepStr, keepElem) ==
    IF c.kind = "elem" THEN c \in keepElem ELSE c.txt \in keepStr

RECURSIVE clean_copy_recursive(_, _, _)
RECURSIVE clean_copy_kids(_, _, _)
clean_copy_recursive(element, keepStr, keepElem) ==
    [element EXCEPT !.kids = clean_copy_kids(@, keepStr, keepElem)]

clean_copy_kids(ks, keepStr, keepElem) ==
    IF ks = <<>> THEN <<>>
    ELSE LET child == Head(ks)
             rest == clean_copy_kids(Tail(ks), keepStr, keepElem)
         IN IF ~InKeep(child, keepStr, keepElem)
            THEN IF \/ child.kind = "elem" /\ ~IsEndMarkerTerm(child)
                    \/ child.kind # "elem" /\ strip(child.txt) # <<>>
                 THEN rest
                 ELSE <<child>> \o rest
            ELSE IF child.kind = "elem" /\ ~IsEndMarkerTerm(child)
                 THEN <<clean_copy_recursive(child, keepStr, keepElem)>> \o rest
                 ELSE <<child>> \o rest

RECURSIVE clean_empty_tags(_)
RECURSIVE clean_empty_kids(_)
clean_empty_tags(element) == [element EXCEPT !.kids = clean_empty_kids(@)]

clean_empty_kids(ks) ==
    IF ks = <<>> THEN <<>>
    ELSE LET child == IF Head(ks).kind = "elem" THEN clean_empty_tags(Head(ks))
                      ELSE Head(ks)
             rest == clean_empty_kids(Tail(ks))
         IN IF /\ child.kind = "elem"
               /\ \/ Len(child.kids) = 0
                  \/ /\ Len(child.kids) = 1
                     /\ child.kids[1].kind # "elem"
                     /\ strip(child.kids[1].txt) = <<>>
            THEN rest
            ELSE <<child>> \o rest

\* the ancestors of an original leaf that the keep set receives: its parents up
\* to the first one == ancestor_copy (or to the root)
RECURSIVE KeptAncestors(_, _, _)
KeptAncestors(t, parent, ancestor_copy) ==
    IF parent = 0 THEN {}
    ELSE {HashOf(t, parent)} \cup
         (IF EqNorm(TermOf(t, parent)) = EqNorm(ancestor_copy) THEN {}
          ELSE KeptAncestors(t, t[parent].par, ancestor_copy))

\* _clean_copy_for_translation(ancestor_copy, nodes_to_keep)
clean_copy_for_translation(t, ancestor_copy, nodes) ==
    LET keepStr == {t[nodes[i]].txt : i \in 1..Len(nodes)}
        keepElem == UNION {KeptAncestors(t, t[nodes[i]].par, ancestor_copy) :
                              i \in 1..Len(nodes)}
    IN IF nodes = <<>> THEN ancestor_copy
       ELSE clean_empty_tags(clean_copy_recursive(ancestor_copy, keepStr, keepElem))

\* _find_text_nodes: the texts of the non-empty, non-comment leaves outside the
\* non-translatable tags, in document order
RECURSIVE find_text_nodes(_)
RECURSIVE find_text_nodes_in(_)
find_text_nodes(element) == find_text_nodes_in(element.kids)

find_text_nodes_in(ks) ==
    IF ks = <<>> THEN <<>>
    ELSE LET node == Head(ks)
         IN (IF node.kind = "text" /\ strip(node.txt) # <<>> THEN <<node.txt>>
             ELSE IF node.kind = "elem" /\ node.tag \notin HTML_TAGS_NO_TRANSLATE
                  THEN find_text_nodes(node)
                  ELSE <<>>)
            \o find_text_nodes_in(Tail(ks))

\* node.string.replace_with(...) on the leaves _find_text_nodes collected, in
\* their order; repl[k] is [set |-> FALSE] where leaf k stays as it is
RECURSIVE replace_leaves(_, _)
RECURSIVE replace_leaves_in(_, _)
replace_leaves(element, repl) ==
    LET r == replace_leaves_in(element.kids, repl)
    IN [term |-> [element EXCEPT !.kids = r.kids], rest |-> r.rest]

replace_leaves_in(ks, repl) ==
    IF ks = <<>> THEN [kids |-> <<>>, rest |-> repl]
    ELSE LET node == Head(ks)
             here == IF node.kind = "text" /\ strip(node.txt) # <<>>
                     THEN [term |-> IF Head(repl).set
                                    THEN [node EXCEPT !.txt = Head(repl).txt]
                                    ELSE node,
                           rest |-> Tail(repl)]
                     ELSE IF node.kind = "elem" /\ node.tag \notin HTML_TAGS_NO_TRANSLATE
                          THEN replace_leaves(node, repl)
                          ELSE [term |-> node, rest |-> repl]
             after == replace_leaves_in(Tail(ks), here.rest)
         IN [kids |-> <<here.term>> \o after.kids, rest |-> after.rest]

\* _create_translation_wrapper: the three nested <font> parsed from the template
create_translation_wrapper(content, is_simple_mode, lang) ==
    Elem("FONT",
         {<<"class", "notranslate hfit-target-wrapper">>,
          <<"data-hfit-translation-element-mark", "1">>, <<"lang", lang>>},
         <<Elem("BR", {}, <<>>),
           Elem("FONT",
                {<<"class", "notranslate hfit-target-translation-theme-none hfit-target-translation-block-wrapper-theme-none hfit-target-translation-block-wrapper">>,
                 <<"data-hfit-translation-element-mark", "1">>},
                <<Elem("FONT",
                       {<<"class", "notranslate hfit-target-inner hfit-target-translation-theme-none-inner">>,
                        <<"data-hfit-translation-element-mark", "1">>}
                         \cup (IF is_simple_mode THEN {<<"style", "color:#2f4f4f;">>}
                               ELSE {}),
                       ParseFragment(content))>>)>>)

\* simple mode: the stripped texts of the block's leaves, each followed by a
\* space, the whole stripped
RECURSIVE join_stripped(_, _)
join_stripped(t, nodes) ==
    IF nodes = <<>> THEN <<>>
    ELSE (IF strip(t[Head(nodes)].txt) # <<>> THEN strip(t[Head(nodes)].txt) \o <<" ">>
          ELSE <<>>) \o join_stripped(t, Tail(nodes))

simple_block_text(t, nodes) == strip(join_stripped(t, nodes))

\* ------------------------------------------------------- input documents
\* The shapes a content root's children are drawn from.
Items ==
    {Text(<<"a">>),
     Text(<<" ">>),
     Cmt(<<"c">>),
     Elem("BR", {}, <<>>),
     Elem("WBR", {}, <<>>),
     Elem("P", {}, <<Text(<<"a">>)>>),
     Elem("B", {}, <<Text(<<"a">>)>>),
     Elem("B", {}, <<Elem("WBR", {}, <<>>), Text(<<"b">>)>>),
     Elem("B", {}, <<Text(<<"a">>), Elem("WBR", {}, <<>>), Text(<<"b">>)>>),
     Elem("I", {}, <<Text(<<"a">>), Elem("BR", {}, <<>>)>>),
     Elem("P", {}, <<Elem("B", {}, <<Text(<<"a">>)>>), Elem("B", {}, <<Text(<<"a">>)>>)>>),
     Elem("P", {}, <<Text(<<"a", " ">>), Elem("B", {}, <<Text(<<"b">>)>>), Text(<<".">>)>>),
     Elem("SPAN", {}, <<Elem("B", {}, <<Text(<<"a">>)>>)>>),
     Elem("DIV", {}, <<Text(<<"a">>), Elem("P", {}, <<Text(<<"b">>)>>), Text(<<"a">>)>>),
     Elem("DIV", {<<"class", "notranslate">>}, <<Text(<<"a">>)>>),
     Elem("SCRIPT", {}, <<Text(<<"a">>)>>)}

Contents == {MergeText(ks) : ks \in UNION {[1..n -> Items] : n \in 0..MaxKids}}

\* the document around the content: with or without <html>, <head>, <body>
Frames == {"full", "nohead", "nobody", "bare"}

Document(frame, ks) ==
    CASE frame = "full" ->
           Elem("[DOCUMENT]", {}, <<Elem("HTML", {}, <<Elem("HEAD", {}, <<>>),
                                                       Elem("BODY", {}, ks)>>)>>)
      [] frame = "nohead" ->
           Elem("[DOCUMENT]", {}, <<Elem("HTML", {}, <<Elem("BODY", {}, ks)>>)>>)
      [] frame = "nobody" ->
           Elem("[DOCUMENT]", {}, <<Elem("HTML", {}, <<Elem("HEAD", {}, <<>>)>> \o ks)>>)
      [] OTHER -> Elem("[DOCUMENT]", {}, ks)

\* BeautifulSoup(html_content, 'html.parser')
Parse(doc) == Load(<<>>, [doc EXCEPT !.kids = ParseFragment(@)], 0)

\* --------------------------------------------- the orchestrator's state
VARIABLES
    pc,                        \* where translate_html_content stands
    html_content,              \* its argument, a document term
    tree,                      \* soup, the live tree
    preserve_tags_structure,   \* self.preserve_tags_structure
    session_id,                \* self.session_id
    run,                       \* which run of the chain this is
    paragraphs,                \* the list _find_paragraphs returned
    pi,                        \* the collecting loop's position in paragraphs
    all_texts_to_translate,
    text_to_original_map,      \* its entries in insertion order
    processed_blocks,
    all_translated_texts,
    calls,                     \* translate_batch calls made in this run
    ai,                        \* the applying loop's position in the map
    processed_count,           \* self.processed_count
    processed_paragraphs,
    extracted,                 \* history: each paragraph with its semantic_blocks
    wrappers,                  \* history: the wrapper each map entry received (0: none)
    previous_output,           \* history: an earlier run on the same input (<<>>: none)
    service,                   \* a TranslationService backend object
    texts,                     \* the argument of its translate_batch
    translations,              \* what translate_batch returned
    replies,                   \* history: what the remote service answered
    spc                        \* where the backend call stands

vars == <<pc, html_content, tree, preserve_tags_structure, session_id, run,
          paragraphs, pi, all_texts_to_translate, text_to_original_map,
          processed_blocks, all_translated_texts, calls, ai, processed_count,
          processed_paragraphs, extracted, wrappers, previous_output,
          service, texts, translations, replies, spc>>

pipeline_vars == <<pc, html_content, tree, preserve_tags_structure, session_id, run,
                   paragraphs, pi, all_texts_to_translate, text_to_original_map,
                   processed_blocks, all_translated_texts, calls, ai, processed_count,
                   processed_paragraphs, extracted, wrappers, previous_output>>

service_vars == <<service, texts, translations, replies, spc>>

\* the translation service's target_language
TargetLanguage == "zh-CN"

\* get_translation_service(name): the backend as its __init__ leaves it
NewService(name) ==
    [name |-> name, translate_sid |-> "", translate_iid_ig |-> "", fetch_lock |-> FALSE]

\* HTMLProcessor.__init__ and the locals of translate_html_content before its
\* first statement
Constructed ==
    /\ pc = "start"
    /\ tree = <<>>
    /\ session_id = "sid1"
    /\ run = 1
    /\ paragraphs = <<>>
    /\ pi = 1
    /\ all_texts_to_translate = <<>>
    /\ text_to_original_map = <<>>
    /\ processed_blocks = {}
    /\ all_translated_texts = <<>>
    /\ calls = 0
    /\ ai = 1
    /\ processed_count = 0
    /\ processed_paragraphs = {}
    /\ extracted = <<>>
    /\ wrappers = <<>>
    /\ previous_output = <<>>

\* HTMLProcessor(...) constructed and handed one document
Init ==
    /\ Constructed
    /\ html_content \in {Document(f, ks) : f \in Frames, ks \in Contents}
    /\ preserve_tags_structure \in BOOLEAN
    /\ service = NewService("google")
    /\ texts = <<>>
    /\ translations = <<>>
    /\ replies = <<>>
    /\ spc = "idle"

\* _add_styles raises when there is neither <head> nor <html> (soup.html is None)
add_styles_raises(t) == find_tag(t, 1, "HEAD") = 0 /\ find_tag(t, 1, "HTML") = 0

StyleTag(id, css) == Elem("STYLE", {<<"data-id", id>>}, <<Text(<<css>>)>>)

append_term(t, parent, term) == append_child(Load(t, term, 0), parent, Len(t) + 1)

add_styles(t) ==
    LET found == find_tag(t, 1, "HEAD")
        head == IF found # 0 THEN found ELSE Len(t) + 1
        t1 == IF found # 0 THEN t
              ELSE insert_at(new_tag(t, "HEAD", {}), find_tag(t, 1, "HTML"), 1, head)
        t2 == append_term(t1, head, StyleTag("hfit-default-injected-css", "DEFAULT_CSS"))
        t3 == append_term(t2, head, StyleTag("hfit-dynamic-injected-css", "DYNAMIC_CSS"))
    IN append_term(t3, head, StyleTag("hfit-user-custom-style", "USER_CUSTOM_CSS"))

\* translate_html_content up to the segmenter: parse, hfit-state, styles, body id
Setup ==
    /\ pc = "start"
    /\ LET soup == Parse(html_content)
           html_tag == find_tag(soup, 1, "HTML")
           t1 == IF html_tag # 0 THEN set_attr(soup, html_tag, "hfit-state", "dual")
                 ELSE soup
           t2 == add_styles(t1)
           body == find_tag(t2, 1, "BODY")
       IN IF add_styles_raises(t1)
          THEN pc' = "aborted" /\ tree' = t1
          ELSE /\ pc' = "segment"
               /\ tree' = IF body # 0
                          THEN set_attr(t2, body, "data-hfit-walked", session_id)
                          ELSE t2
    /\ UNCHANGED <<html_content, preserve_tags_structure, session_id, run, paragraphs,
                   pi, all_texts_to_translate, text_to_original_map, processed_blocks,
                   all_translated_texts, calls, ai, processed_count,
                   processed_paragraphs, extracted, wrappers>>
    /\ UNCHANGED <<previous_output, service_vars>>

\* paragraphs = self._find_paragraphs(soup); self.processed_count = 0
FindParagraphs ==
    /\ pc = "segment"
    /\ LET S == find_paragraphs(tree, session_id)
       IN tree' = S.t /\ paragraphs' = S.list
    /\ pi' = 1
    /\ processed_count' = 0
    /\ pc' = "collect"
    /\ UNCHANGED <<html_content, preserve_tags_structure, session_id, run,
                   all_texts_to_translate, text_to_original_map, processed_blocks,
                   all_translated_texts, calls, ai, processed_paragraphs, extracted,
                   wrappers>>
    /\ UNCHANGED <<previous_output, service_vars>>

\* One block's payloads, added to R = [texts, map, done] (all_texts_to_translate,
\* text_to_original_map, processed_blocks).
render_block(R, t, paragraph, block_index, block, advanced) ==
    LET block_id == <<paragraph, block_index>>
        ancestor_copy == clean_copy_for_translation(
                             t, TermOf(t, block.common_ancestor), block.nodes)
        text_nodes == find_text_nodes(ancestor_copy)
        base == Len(R.texts)
        all_text == simple_block_text(t, block.nodes)
        R1 == [R EXCEPT !.done = @ \cup {block_id}]
    IN IF block_id \in R.done THEN R
       ELSE IF block.nodes = <<>> THEN R1
       ELSE IF advanced /\ block.common_ancestor # 0
       THEN IF text_nodes = <<>> THEN R1
            ELSE [R1 EXCEPT
                    !.texts = @ \o [k \in 1..Len(text_nodes) |-> strip(text_nodes[k])],
                    !.map = Append(@, [type |-> "advanced_block",
                                       paragraph |-> paragraph,
                                       block |-> block,
                                       block_index |-> block_index,
                                       ancestor_copy |-> ancestor_copy,
                                       text_ids |-> [k \in 1..Len(text_nodes) |-> base + k]])]
       ELSE IF all_text = <<>> THEN R1
            ELSE [R1 EXCEPT
                    !.texts = Append(@, all_text),
                    !.map = Append(@, [type |-> "simple_block",
                                       paragraph |-> paragraph,
                                       block |-> block,
                                       block_index |-> block_index,
                                       ancestor_copy |-> Text(<<>>),
                                       text_ids |-> <<base + 1>>])]

RECURSIVE render_blocks(_, _, _, _, _, _)
render_blocks(R, t, paragraph, blocks, k, advanced) ==
    IF k > Len(blocks) THEN R
    ELSE render_blocks(render_block(R, t, paragraph, k, blocks[k], advanced),
                       t, paragraph, blocks, k + 1, advanced)

\* one turn of `for paragraph in paragraphs`: extract its blocks, render payloads
CollectParagraph ==
    /\ pc = "collect"
    /\ pi <= Len(paragraphs)
    /\ LET paragraph == paragraphs[pi]
           X == extract_semantic_blocks(tree, paragraph)
           R == render_blocks([texts |-> all_texts_to_translate,
                               map |-> text_to_original_map,
                               done |-> processed_blocks],
                              X.t, paragraph, X.blocks, 1, preserve_tags_structure)
       IN IF extract_raises(tree, paragraph)
          THEN /\ pc' = "aborted"
               /\ UNCHANGED <<tree, all_texts_to_translate, text_to_original_map,
                              processed_blocks, extracted, pi>>
          ELSE /\ pc' = "collect"
               /\ tree' = X.t
               /\ all_texts_to_translate' = R.texts
               /\ text_to_original_map' = R.map
               /\ processed_blocks' = R.done
               /\ extracted' = Append(extracted, [paragraph |-> paragraph,
                                                  blocks |-> X.blocks,
                                                  bounding |-> X.bounding,
                                                  appended |-> X.appended,
                                                  dropped |-> X.dropped,
                                                  left |-> X.cur])
               /\ pi' = pi + 1
    /\ UNCHANGED <<html_content, preserve_tags_structure, session_id, run, paragraphs,
                   all_translated_texts, calls, ai, processed_count,
                   processed_paragraphs, wrappers>>
    /\ UNCHANGED <<previous_output, service_vars>>

\* what the collaborator answers for payload i of run r: a string no document holds
Translation(r, i) == <<"T" \o ToString(r) \o "." \o ToString(i)>>

\* all_translated_texts = self.translation_service.translate_batch(...): the
\* collaborator answers every payload, or leaves out up to MaxDrop at the end
TranslateBatch ==
    /\ pc = "collect"
    /\ pi > Len(paragraphs)
    /\ all_texts_to_translate # <<>>
    /\ calls' = calls + 1
    /\ \E drop \in 0..MaxDrop :
          /\ drop <= Len(all_texts_to_translate)
          /\ all_translated_texts' =
                [i \in 1..(Len(all_texts_to_translate) - drop) |-> Translation(run, i)]
    /\ ai' = 1
    /\ pc' = "apply"
    /\ UNCHANGED <<html_content, tree, preserve_tags_structure, session_id, run,
                   paragraphs, pi, all_texts_to_translate, text_to_original_map,
                   processed_blocks, processed_count, processed_paragraphs, extracted,
                   wrappers>>
    /\ UNCHANGED <<previous_output, service_vars>>

\* a translation step that calls the collaborator with the empty list too
TranslateEmptyBatch ==
    /\ pc = "collect"
    /\ pi > Len(paragraphs)
    /\ all_texts_to_translate = <<>>
    /\ calls' = calls + 1
    /\ all_translated_texts' = <<>>
    /\ ai' = 1
    /\ pc' = "apply"
    /\ UNCHANGED <<html_content, tree, preserve_tags_structure, session_id, run,
                   paragraphs, pi, all_texts_to_translate, text_to_original_map,
                   processed_blocks, processed_count, processed_paragraphs, extracted,
                   wrappers>>
    /\ UNCHANGED <<previous_output, service_vars>>

\* the else branch: nothing to translate, no call
NothingToTranslate ==
    /\ pc = "collect"
    /\ pi > Len(paragraphs)
    /\ all_texts_to_translate = <<>>
    /\ all_translated_texts' = <<>>
    /\ ai' = 1
    /\ pc' = "apply"
    /\ UNCHANGED <<html_content, tree, preserve_tags_structure, session_id, run,
                   paragraphs, pi, all_texts_to_translate, text_to_original_map,
                   processed_blocks, calls, processed_count, processed_paragraphs,
                   extracted, wrappers>>
    /\ UNCHANGED <<previous_output, service_vars>>

\* the wrapper put in the place of the block's end marker
place_wrapper_over(t, info, wrapper) ==
    LET id == Len(t) + 1
        t1 == Load(t, wrapper, 0)
    IN IF info.block.end_marker # 0 THEN replace_with(t1, info.block.end_marker, id)
       ELSE append_child(t1, info.paragraph, id)

\* the wrapper put after the block's end marker instead of before it
place_wrapper_after(t, info, wrapper) ==
    LET id == Len(t) + 1
        t1 == Load(t, wrapper, 0)
    IN IF info.block.end_marker # 0 THEN insert_after(t1, info.block.end_marker, id)
       ELSE append_child(t1, info.paragraph, id)

\* the wrapper put before the block's end marker (or appended to the paragraph)
place_wrapper(t, info, wrapper) ==
    LET id == Len(t) + 1
        t1 == Load(t, wrapper, 0)
    IN IF info.block.end_marker # 0 THEN insert_before(t1, info.block.end_marker, id)
       ELSE append_child(t1, info.paragraph, id)

\* replacements read one position further along the answer
LeafReplacementsShifted(info, translated) ==
    [k \in 1..Len(info.text_ids) |->
        IF info.text_ids[k] + 1 <= Len(translated)
        THEN [set |-> TRUE, txt |-> translated[info.text_ids[k] + 1]]
        ELSE [set |-> FALSE, txt |-> <<>>]]

\* the replacements of an advanced block's leaves: position text_id of the answer
LeafReplacements(info, translated) ==
    [k \in 1..Len(info.text_ids) |->
        IF info.text_ids[k] <= Len(translated)
        THEN [set |-> TRUE, txt |-> translated[info.text_ids[k]]]
        ELSE [set |-> FALSE, txt |-> <<>>]]

\* one turn of `for ... in text_to_original_map.items()`; the new tree and the
\* wrapper's node (0 when none was built)
apply_block(t, info, translated, lang) ==
    IF info.type = "advanced_block"
    THEN LET copy == replace_leaves(info.ancestor_copy,
                                    LeafReplacements(info, translated)).term
             wrapper == create_translation_wrapper(copy.kids, FALSE, lang)
         IN [t |-> place_wrapper(t, info, wrapper), wrapper |-> Len(t) + 1]
    ELSE IF info.text_ids[1] <= Len(translated)
         THEN LET wrapper == create_translation_wrapper(
                                 ParseString(translated[info.text_ids[1]]), TRUE, lang)
              IN [t |-> place_wrapper(t, info, wrapper), wrapper |-> Len(t) + 1]
         ELSE [t |-> t, wrapper |-> 0]

ApplyBlock ==
    /\ pc = "apply"
    /\ ai <= Len(text_to_original_map)
    /\ LET info == text_to_original_map[ai]
           A == apply_block(tree, info, all_translated_texts, TargetLanguage)
           t1 == set_attr(A.t, info.paragraph, "data-hfit-paragraph", "1")
       IN /\ tree' = t1
          /\ wrappers' = Append(wrappers, A.wrapper)
          /\ processed_paragraphs' = SetAdd(t1, processed_paragraphs, info.paragraph)
          /\ processed_count' = IF InSet(t1, processed_paragraphs, info.paragraph)
                                THEN processed_count ELSE processed_count + 1
    /\ ai' = ai + 1
    /\ UNCHANGED <<pc, html_content, preserve_tags_structure, session_id, run,
                   paragraphs, pi, all_texts_to_translate, text_to_original_map,
                   processed_blocks, all_translated_texts, calls, extracted>>
    /\ UNCHANGED <<previous_output, service_vars>>

\* return str(soup)
Finish ==
    /\ pc = "apply"
    /\ ai > Len(text_to_original_map)
    /\ pc' = "done"
    /\ UNCHANGED <<html_content, tree, preserve_tags_structure, session_id, run,
                   paragraphs, pi, all_texts_to_translate, text_to_original_map,
                   processed_blocks, all_translated_texts, calls, ai, processed_count,
                   processed_paragraphs, extracted, wrappers>>
    /\ UNCHANGED <<previous_output, service_vars>>

\* the output of a run handed to translate_html_content again, by the same
\* HTMLProcessor or by a new one (a new session id)
ReRun ==
    /\ pc = "done"
    /\ run < MaxRuns
    /\ run' = run + 1
    /\ html_content' = TermOf(tree, 1)
    /\ session_id' \in SessionIds
    /\ tree' = <<>>
    /\ pc' = "start"
    /\ paragraphs' = <<>>
    /\ pi' = 1
    /\ all_texts_to_translate' = <<>>
    /\ text_to_original_map' = <<>>
    /\ processed_blocks' = {}
    /\ all_translated_texts' = <<>>
    /\ calls' = 0
    /\ ai' = 1
    /\ processed_paragraphs' = {}
    /\ extracted' = <<>>
    /\ wrappers' = <<>>
    /\ UNCHANGED <<preserve_tags_structure, processed_count>>
    /\ UNCHANGED <<previous_output, service_vars>>

Next ==
    \/ Setup
    \/ FindParagraphs
    \/ CollectParagraph
    \/ TranslateBatch
    \/ NothingToTranslate
    \/ ApplyBlock
    \/ Finish
    \/ ReRun

Spec == Init /\ [][Next]_vars


\* ------------------------------------------------- translation backends
\* Strings are sequences of characters here.
StartsWith(s, prefix) == Len(s) >= Len(prefix) /\ SubSeq(s, 1, Len(prefix)) = prefix

\* str.replace(old, new): left to right, not overlapping
RECURSIVE str_replace(_, _, _)
str_replace(s, old, new) ==
    IF s = <<>> THEN <<>>
    ELSE IF StartsWith(s, old)
         THEN new \o str_replace(SubSeq(s, Len(old) + 1, Len(s)), old, new)
         ELSE <<Head(s)>> \o str_replace(Tail(s), old, new)

\* str.split(sep), cur being the item in progress
RECURSIVE str_split(_, _, _)
str_split(s, sep, cur) ==
    IF s = <<>> THEN <<cur>>
    ELSE IF StartsWith(s, sep)
         THEN <<cur>> \o str_split(SubSeq(s, Len(sep) + 1, Len(s)), sep, <<>>)
         ELSE str_split(Tail(s), sep, Append(cur, Head(s)))

\* sep.join(items)
RECURSIVE str_join(_, _)
str_join(items, sep) ==
    IF items = <<>> THEN <<>>
    ELSE IF Len(items) = 1 THEN items[1]
    ELSE items[1] \o sep \o str_join(Tail(items), sep)

AMP == <<"&", "a", "m", "p", ";">>
LT == <<"&", "l", "t", ";">>
GT == <<"&", "g", "t", ";">>
QUOT == <<"&", "q", "u", "o", "t", ";">>
APOS == <<"&", "#", "3", "9", ";">>
WBR_SEPARATOR == <<"<", "w", "b", "r", ">">>

escape_html(text) ==
    str_replace(str_replace(str_replace(str_replace(str_replace(
        text, <<"&">>, AMP), <<"<">>, LT), <<">">>, GT), <<"\"">>, QUOT), <<"'">>, APOS)

unescape_html(text) ==
    str_replace(str_replace(str_replace(str_replace(str_replace(
        text, AMP, <<"&">>), LT, <<"<">>), GT, <<">">>), QUOT, <<"\"">>), APOS, <<"'">>)

Backends == {"google", "bing", "yandex", "argos"}

\* the strings handed to a backend, and the lists of them
TextPool == {<<"a">>, <<" ">>, <<"&">>, <<"<", "b">>}

TextLists == UNION {[1..n -> TextPool] : n \in 0..MaxTexts}

\* what the remote service makes of s, the text at position i of the request
ServiceTranslate(i, s) == <<"T", ToString(i)>> \o s

\* _find_sid returning from a failed fetch with the guard still set
bing_find_sid_held(sv, expired, fetched) ==
    IF sv.fetch_lock THEN sv
    ELSE IF sv.translate_sid # "" /\ ~expired THEN [sv EXCEPT !.fetch_lock = FALSE]
    ELSE IF fetched
         THEN [sv EXCEPT !.translate_sid = "&token=t&key=k",
                         !.translate_iid_ig = "IG=g&IID=i", !.fetch_lock = FALSE]
         ELSE [sv EXCEPT !.translate_sid = "", !.translate_iid_ig = "",
                         !.fetch_lock = TRUE]

\* BingTranslationService._find_sid; fetched: the page was got and held the
\* parameters, expired: the 12 hours have passed
bing_find_sid(sv, expired, fetched) ==
    IF sv.fetch_lock THEN sv
    ELSE IF sv.translate_sid # "" /\ ~expired THEN [sv EXCEPT !.fetch_lock = FALSE]
    ELSE IF fetched
         THEN [sv EXCEPT !.translate_sid = "&token=t&key=k",
                         !.translate_iid_ig = "IG=g&IID=i", !.fetch_lock = FALSE]
         ELSE [sv EXCEPT !.translate_sid = "", !.translate_iid_ig = "",
                         !.fetch_lock = FALSE]

\* YandexTranslationService._find_sid: a failed fetch leaves translate_sid as it was
yandex_find_sid(sv, expired, fetched) ==
    IF sv.fetch_lock THEN sv
    ELSE IF sv.translate_sid # "" /\ ~expired THEN [sv EXCEPT !.fetch_lock = FALSE]
    ELSE IF fetched THEN [sv EXCEPT !.translate_sid = "0a.1", !.fetch_lock = FALSE]
         ELSE [sv EXCEPT !.fetch_lock = FALSE]

GoogleOutcomes == {"ok", "http_error", "invalid"}
BingOutcomes == {"ok", "status", "not_json", "no_translations"}
ArgosOutcomes == {"ok", "raised"}

\* the loop of Google's, Bing's and Argos's translate_batch: one request per
\* text, o[i] its outcome
translate_each(ts, o) ==
    [i \in 1..Len(ts) |->
        IF strip(ts[i]) = <<>> THEN <<>>
        ELSE IF o[i] = "ok" THEN ServiceTranslate(i, ts[i])
        ELSE ts[i]]

\* the one request of Yandex's translate_batch: what the service sends back for
\* the joined text. Besides the answer with one item per text: a separator lost
\* between two items, a separator added inside an item, the last item missing,
\* an item too many.
YandexAnswers(ts) ==
    LET n == Len(ts)
        item == [i \in 1..n |-> ServiceTranslate(i, escape_html(ts[i]))]
        pieces(k) == [i \in 1..(n + 1) |->
                        IF i < k THEN item[i]
                        ELSE IF i = k THEN <<Head(item[k])>>
                        ELSE IF i = k + 1 THEN Tail(item[k])
                        ELSE item[i - 1]]
        merged(k) == [i \in 1..(n - 1) |->
                        IF i < k THEN item[i]
                        ELSE IF i = k THEN item[k] \o item[k + 1]
                        ELSE item[i + 1]]
    IN {str_join(item, WBR_SEPARATOR)}
       \cup {str_join(merged(k), WBR_SEPARATOR) : k \in 1..(n - 1)}
       \cup {str_join(pieces(k), WBR_SEPARATOR) : k \in 1..n}
       \cup {str_join(SubSeq(item, 1, m), WBR_SEPARATOR) : m \in {n - 1} \ {0}}
       \cup {str_join(Append(item, <<"T">>), WBR_SEPARATOR)}

\* Yandex: the items of the answer, unescaped, filled up with the texts or cut
\* to their number
yandex_items(ts, answer) ==
    LET split == str_split(answer, WBR_SEPARATOR, <<>>)
        translated_items == [i \in 1..Len(split) |-> unescape_html(split[i])]
    IN IF Len(translated_items) < Len(ts)
       THEN translated_items \o SubSeq(ts, Len(translated_items) + 1, Len(ts))
       ELSE SubSeq(translated_items, 1, Len(ts))

\* GoogleTranslationService.translate_batch
GoogleTranslateBatch ==
    /\ spc = "idle"
    /\ service.name = "google"
    /\ \E o \in [1..Len(texts) -> GoogleOutcomes] :
          /\ translations' = translate_each(texts, o)
          /\ replies' = o
    /\ spc' = "returned"
    /\ UNCHANGED <<service, texts>>
    /\ UNCHANGED pipeline_vars

\* BingTranslationService.translate_batch
BingTranslateBatch ==
    /\ spc = "idle"
    /\ service.name = "bing"
    /\ IF texts = <<>>
       THEN translations' = <<>> /\ replies' = <<>> /\ UNCHANGED service
       ELSE \E expired, fetched \in BOOLEAN :
               LET sv == bing_find_sid(service, expired, fetched)
               IN /\ service' = sv
                  /\ IF sv.translate_sid = "" \/ sv.translate_iid_ig = ""
                     THEN translations' = texts /\ replies' = <<>>
                     ELSE \E o \in [1..Len(texts) -> BingOutcomes] :
                             /\ translations' = translate_each(texts, o)
                             /\ replies' = o
    /\ spc' = "returned"
    /\ UNCHANGED texts
    /\ UNCHANGED pipeline_vars

\* YandexTranslationService.translate_batch
YandexTranslateBatch ==
    /\ spc = "idle"
    /\ service.name = "yandex"
    /\ IF texts = <<>>
       THEN translations' = <<>> /\ replies' = <<>> /\ UNCHANGED service
       ELSE \E expired, fetched \in BOOLEAN :
               LET sv == yandex_find_sid(service, expired, fetched)
               IN /\ service' = sv
                  /\ IF sv.translate_sid = ""
                     THEN translations' = texts /\ replies' = <<>>
                     ELSE \/ \E failure \in {"http_error", "invalid", "no_text"} :
                                translations' = texts /\ replies' = <<failure>>
                          \/ \E answer \in YandexAnswers(texts) :
                                /\ translations' = yandex_items(texts, answer)
                                /\ replies' = <<"ok", answer>>
    /\ spc' = "returned"
    /\ UNCHANGED texts
    /\ UNCHANGED pipeline_vars

\* ArgosTranslationService.translate_batch
ArgosTranslateBatch ==
    /\ spc = "idle"
    /\ service.name = "argos"
    /\ \E o \in [1..Len(texts) -> ArgosOutcomes] :
          /\ translations' = translate_each(texts, o)
          /\ replies' = o
    /\ spc' = "returned"
    /\ UNCHANGED <<service, texts>>
    /\ UNCHANGED pipeline_vars

\* the caller comes back to the same backend object with another list
NextBatch ==
    /\ spc = "returned"
    /\ texts' \in TextLists
    /\ translations' = <<>>
    /\ replies' = <<>>
    /\ spc' = "idle"
    /\ UNCHANGED service
    /\ UNCHANGED pipeline_vars

\* a backend object and the first list handed to it
SvcInit ==
    /\ Constructed
    /\ html_content = Document("bare", <<>>)
    /\ preserve_tags_structure = FALSE
    /\ service \in {NewService(name) : name \in Backends}
    /\ texts \in TextLists
    /\ translations = <<>>
    /\ replies = <<>>
    /\ spc = "idle"

SvcNext ==
    \/ GoogleTranslateBatch
    \/ BingTranslateBatch
    \/ YandexTranslateBatch
    \/ ArgosTranslateBatch
    \/ NextBatch

SvcSpec == SvcInit /\ [][SvcNext]_vars

\* ------------------------------------- the session-parameter refresh alone
\* _find_sid of the backend at hand
find_sid(sv, expired, fetched) ==
    IF sv.name = "bing" THEN bing_find_sid(sv, expired, fetched)
    ELSE yandex_find_sid(sv, expired, fetched)

SidInit ==
    /\ Constructed
    /\ html_content = Document("bare", <<>>)
    /\ preserve_tags_structure = FALSE
    /\ service \in {NewService(name) : name \in {"bing", "yandex"}}
    /\ texts = <<>>
    /\ translations = <<>>
    /\ replies = <<>>
    /\ spc = "idle"

\* a call passes `if self._fetch_lock: return` and sets the guard
SidEnter ==
    /\ spc = "idle"
    /\ calls < MaxCalls
    /\ ~service.fetch_lock
    /\ service' = [service EXCEPT !.fetch_lock = TRUE]
    /\ calls' = calls + 1
    /\ spc' = "fetching"
    /\ UNCHANGED replies

\* a call made while the first one is still inside _find_sid
SidReenter ==
    /\ spc = "fetching"
    /\ calls < MaxCalls
    /\ \E expired, fetched \in BOOLEAN : service' = find_sid(service, expired, fetched)
    /\ calls' = calls + 1
    /\ replies' = Append(replies, "reentered")
    /\ UNCHANGED spc

\* the call that holds the guard goes on to its return: parameters still
\* valid, fetched, or not fetched (unparsable page, exception)
SidReturn ==
    /\ spc = "fetching"
    /\ \E expired, fetched \in BOOLEAN :
          /\ service' = find_sid([service EXCEPT !.fetch_lock = FALSE], expired, fetched)
          /\ replies' = Append(replies, IF service.translate_sid # "" /\ ~expired
                                        THEN "valid"
                                        ELSE IF fetched THEN "fetched" ELSE "failed")
    /\ spc' = "idle"
    /\ UNCHANGED calls

SidNext ==
    /\ \/ SidEnter
       \/ SidReenter
       \/ SidReturn
    /\ UNCHANGED <<pc, html_content, tree, preserve_tags_structure, session_id, run,
                   paragraphs, pi, all_texts_to_translate, text_to_original_map,
                   processed_blocks, all_translated_texts, ai, processed_count,
                   processed_paragraphs, extracted, wrappers, previous_output>>
    /\ UNCHANGED <<texts, translations>>

SidSpec == SidInit /\ [][SidNext]_vars

\* ------------------------------------------- escaping and unescaping alone
\* the characters the strings handed to escape_html are made of
EscapeChars == {"&", "<", ";", "l", "t", "a"}

EscapeTexts == UNION {[1..n -> EscapeChars] : n \in 0..MaxChars}

EscInit ==
    /\ Constructed
    /\ html_content = Document("bare", <<>>)
    /\ preserve_tags_structure = FALSE
    /\ service = NewService("yandex")
    /\ texts \in {<<t>> : t \in EscapeTexts}
    /\ translations = <<>>
    /\ replies = <<>>
    /\ spc = "idle"

\* unescape_html(escape_html(text)) for the text at hand
EscapeUnescape ==
    /\ spc = "idle"
    /\ translations' = <<unescape_html(escape_html(texts[1]))>>
    /\ spc' = "returned"
    /\ UNCHANGED <<service, texts, replies>>
    /\ UNCHANGED pipeline_vars

EscNext == EscapeUnescape

EscSpec == EscInit /\ [][EscNext]_vars

\* ------------------------------------------ the segmenter on its own
\* _find_paragraphs(BeautifulSoup(html_content, 'html.parser')), called directly
SegInit == Init /\ preserve_tags_structure = FALSE

FindParagraphsAlone ==
    /\ pc = "start"
    /\ LET S == find_paragraphs(Parse(html_content), session_id)
       IN tree' = S.t /\ paragraphs' = S.list
    /\ pc' = "segmented"
    /\ UNCHANGED <<html_content, preserve_tags_structure, session_id, run, pi,
                   all_texts_to_translate, text_to_original_map, processed_blocks,
                   all_translated_texts, calls, ai, processed_count,
                   processed_paragraphs, extracted, wrappers>>
    /\ UNCHANGED <<previous_output, service_vars>>

SegNext == FindParagraphsAlone

SegSpec == SegInit /\ [][SegNext]_vars

\* ------------------------------------- a collaborator answering with markup
\* the answer for payload i when the collaborator returns the characters of a
\* tag inside it (an identity collaborator does for a leaf such as x&lt;i&gt;y)
MarkupTranslation(r, i) == Translation(r, i) \o <<OpenTag>> \o Translation(r, i)

TranslateMarkupBatch ==
    /\ pc = "collect"
    /\ pi > Len(paragraphs)
    /\ all_texts_to_translate # <<>>
    /\ calls' = calls + 1
    /\ all_translated_texts' =
          [i \in 1..Len(all_texts_to_translate) |-> MarkupTranslation(run, i)]
    /\ ai' = 1
    /\ pc' = "apply"
    /\ UNCHANGED <<html_content, tree, preserve_tags_structure, session_id, run,
                   paragraphs, pi, all_texts_to_translate, text_to_original_map,
                   processed_blocks, processed_count, processed_paragraphs, extracted,
                   wrappers>>
    /\ UNCHANGED <<previous_output, service_vars>>

MarkupNext ==
    \/ Setup
    \/ FindParagraphs
    \/ CollectParagraph
    \/ TranslateMarkupBatch
    \/ NothingToTranslate
    \/ ApplyBlock
    \/ Finish

MarkupSpec == Init /\ [][MarkupNext]_vars

\* --------------------------------------- the same document run twice
\* translate_html_content called again with the same html_content, by the same
\* HTMLProcessor (its session_id) or by a new one (generate_session_id: another
\* uuid4); the first run's output and the collaborator's answer are kept
Repeat ==
    /\ pc = "done"
    /\ previous_output = <<>>
    /\ previous_output' = <<[output |-> TermOf(tree, 1),
                             answer |-> all_translated_texts]>>
    /\ session_id' \in SessionIds
    /\ tree' = <<>>
    /\ pc' = "start"
    /\ paragraphs' = <<>>
    /\ pi' = 1
    /\ all_texts_to_translate' = <<>>
    /\ text_to_original_map' = <<>>
    /\ processed_blocks' = {}
    /\ all_translated_texts' = <<>>
    /\ calls' = 0
    /\ ai' = 1
    /\ processed_paragraphs' = {}
    /\ extracted' = <<>>
    /\ wrappers' = <<>>
    /\ UNCHANGED <<html_content, preserve_tags_structure, run, processed_count>>
    /\ UNCHANGED service_vars

TwiceNext ==
    \/ Setup
    \/ FindParagraphs
    \/ CollectParagraph
    \/ TranslateBatch
    \/ NothingToTranslate
    \/ ApplyBlock
    \/ Finish
    \/ Repeat

TwiceSpec == Init /\ [][TwiceNext]_vars

\* ------------------------------------------------------------ properties
Nodes(t) == 1..Len(t)

\* in the document (not extracted from it)
Attached(t, n) == n = 1 \/ IsAncestor(t, 1, n)

IsTextLeaf(t, n) == t[n].kind = "text" /\ strip(t[n].txt) # <<>>

HasMark(t, n) == IsTag(t, n) /\ has_attr(t, n, "data-hfit-translation-element-mark")

IsWrapper(t, n) == IsTag(t, n) /\ <<"class", "notranslate hfit-target-wrapper">> \in t[n].attrs

IsEndMarker(t, n) == IsTag(t, n) /\ has_attr(t, n, "data-hfit-block-end-marker")

IsParagraph(t, n) == IsTag(t, n) /\ has_attr(t, n, "data-hfit-paragraph")

Range(s) == {s[i] : i \in 1..Len(s)}

NoDuplicates(s) == \A i, j \in 1..Len(s) : s[i] = s[j] => i = j

\* the leaves of a paragraph's blocks, block after block
RECURSIVE BlockNodes(_)
BlockNodes(blocks) ==
    IF blocks = <<>> THEN <<>> ELSE Head(blocks).nodes \o BlockNodes(Tail(blocks))

\* the non-empty text leaves under p that no nested paragraph owns
OwnLeaves(t, p) ==
    {n \in Nodes(t) :
        /\ IsTextLeaf(t, n)
        /\ IsAncestor(t, p, n)
        /\ ~\E q \in Nodes(t) :
              IsParagraph(t, q) /\ IsAncestor(t, p, q) /\ IsAncestor(t, q, n)}

\* the nearest ancestor that carries data-hfit-paragraph (0: none)
RECURSIVE NearestParagraph(_, _)
NearestParagraph(t, n) ==
    IF t[n].par = 0 THEN 0
    ELSE IF IsParagraph(t, t[n].par) THEN t[n].par
    ELSE NearestParagraph(t, t[n].par)

InNoTranslate(t, n) ==
    \E a \in Nodes(t) : IsTag(t, a) /\ is_no_translate(t, a) /\ IsAncestor(t, a, n)

\* a wrapper's next sibling, end markers aside, is a wrapper again
NextToWrapper(t, n) ==
    LET sibs == t[t[n].par].kids
        i == IndexIn(sibs, n)
    IN \E j \in (i + 1)..Len(sibs) :
          /\ IsWrapper(t, sibs[j])
          /\ \A k \in (i + 1)..(j - 1) : IsEndMarker(t, sibs[k])

\* all the text of a term, leaf after leaf
RECURSIVE TextOf(_)
RECURSIVE TextOfKids(_)
TextOf(term) == IF term.kind = "text" THEN term.txt
                ELSE IF term.kind = "cmt" THEN <<>>
                ELSE TextOfKids(term.kids)

TextOfKids(ks) == IF ks = <<>> THEN <<>> ELSE TextOf(Head(ks)) \o TextOfKids(Tail(ks))

\* the text leaves of a term
RECURSIVE LeavesOf(_)
RECURSIVE LeavesOfKids(_)
LeavesOf(term) == IF term.kind = "text" THEN <<term.txt>>
                  ELSE IF term.kind = "cmt" THEN <<>>
                  ELSE LeavesOfKids(term.kids)

LeavesOfKids(ks) == IF ks = <<>> THEN <<>> ELSE LeavesOf(Head(ks)) \o LeavesOfKids(Tail(ks))

C2_WrapperIdempotent ==
    (pc = "done" /\ run >= 2) =>
        \A n \in Nodes(tree) :
            (Attached(tree, n) /\ IsWrapper(tree, n)) =>
                /\ ~\E a \in Nodes(tree) : IsWrapper(tree, a) /\ IsAncestor(tree, a, n)
                /\ ~NextToWrapper(tree, n)

\* C3: when a paragraph's blocks have been extracted, nothing inside it carries
\* data-hfit-translation-element-mark, and no leaf of a block lies inside an
\* element that carries it.
C3_WrappersRemovedBeforeExtraction ==
    pc = "collect" =>
        \A k \in 1..Len(extracted) :
            /\ ~\E m \in Nodes(tree) :
                  HasMark(tree, m) /\ IsAncestor(tree, extracted[k].paragraph, m)
            /\ \A n \in Range(BlockNodes(extracted[k].blocks)) :
                  ~\E m \in Nodes(tree) : HasMark(tree, m) /\ IsAncestor(tree, m, n)

\* C4: the blocks of a paragraph partition its own non-empty text leaves: each
\* such leaf is in exactly one block, once, and no other leaf is in a block.
C4_BlocksPartitionLeaves ==
    pc = "collect" =>
        \A k \in 1..Len(extracted) :
            LET all == BlockNodes(extracted[k].blocks)
            IN /\ NoDuplicates(all)
               /\ Range(all) = OwnLeaves(tree, extracted[k].paragraph)

\* C5: a block's common_ancestor is, by node identity, an ancestor of every
\* leaf of the block, and the deepest such element.
C5_CommonAncestorIsAncestor ==
    pc = "collect" =>
        \A k \in 1..Len(extracted) :
            \A b \in Range(extracted[k].blocks) :
                /\ \A n \in Range(b.nodes) : IsAncestor(tree, b.common_ancestor, n)
                /\ ~\E m \in Nodes(tree) :
                      /\ tree[m].par = b.common_ancestor
                      /\ \A n \in Range(b.nodes) : IsAncestor(tree, m, n)

\* C6: after _find_paragraphs every translatable text leaf's nearest marked
\* ancestor occurs exactly once in the returned list, and every element the
\* segmenter marked is in the list.
C6_LeafOwnedOnce ==
    (pc = "collect" /\ run = 1) =>
        /\ \A n \in Nodes(tree) :
              (Attached(tree, n) /\ IsTextLeaf(tree, n) /\ ~InNoTranslate(tree, n)
                 /\ IsAncestor(tree, paragraphs[1], n)) =>
                  Cardinality({i \in 1..Len(paragraphs) :
                                  paragraphs[i] = NearestParagraph(tree, n)}) = 1
        /\ \A m \in Nodes(tree) : IsParagraph(tree, m) => m \in Range(paragraphs)

\* C7: no element that is non-translatable by tag, class notranslate or
\* translate="no", and no descendant of one, is marked as a paragraph or
\* returned by the segmenter.
C7_NoTranslateSkipped ==
    (pc = "collect" /\ run = 1) =>
        \A n \in Nodes(tree) :
            (IsTag(tree, n) /\ (is_no_translate(tree, n) \/ InNoTranslate(tree, n))) =>
                ~IsParagraph(tree, n) /\ n \notin Range(paragraphs)

\* C9: when the collaborator returned fewer strings than submitted, the run
\* returns and every block with a payload position that has no returned string
\* has its wrapper, holding that payload's original text.
C9_MissingFallsBack ==
    pc = "done" =>
        \A k \in 1..Len(text_to_original_map) :
            \A id \in Range(text_to_original_map[k].text_ids) :
                id > Len(all_translated_texts) =>
                    /\ wrappers[k] # 0
                    /\ \E leaf \in Range(LeavesOf(TermOf(tree, wrappers[k]))) :
                          strip(leaf) = all_texts_to_translate[id]

\* the text ids of the map's entries, entry after entry
RECURSIVE FlatIds(_)
FlatIds(map) == IF map = <<>> THEN <<>> ELSE Head(map).text_ids \o FlatIds(Tail(map))

\* what leaf j of entry info handed to the payload list
Contribution(info, j) ==
    IF info.type = "advanced_block"
    THEN strip(find_text_nodes(info.ancestor_copy)[j])
    ELSE simple_block_text(tree, info.block.nodes)

\* the text a wrapper must hold once the answer is applied to (a copy's) kids:
\* each non-empty leaf outside the non-translatable tags takes the answer at its
\* own id when there is one, everything else stays
RECURSIVE ExpectedText(_, _, _)
ExpectedText(ks, ids, translated) ==
    IF ks = <<>> THEN [txt |-> <<>>, ids |-> ids]
    ELSE LET node == Head(ks)
             here == IF node.kind = "text" /\ strip(node.txt) # <<>>
                     THEN [txt |-> IF Head(ids) <= Len(translated)
                                   THEN translated[Head(ids)] ELSE node.txt,
                           ids |-> Tail(ids)]
                     ELSE IF node.kind = "text" THEN [txt |-> node.txt, ids |-> ids]
                     ELSE IF node.kind = "elem" /\ node.tag \notin HTML_TAGS_NO_TRANSLATE
                     THEN ExpectedText(node.kids, ids, translated)
                     ELSE [txt |-> TextOf(node), ids |-> ids]
             after == ExpectedText(Tail(ks), here.ids, translated)
         IN [txt |-> here.txt \o after.txt, ids |-> after.ids]

Expected(info, translated) ==
    IF info.type = "advanced_block"
    THEN ExpectedText(info.ancestor_copy.kids, info.text_ids, translated).txt
    ELSE translated[info.text_ids[1]]

ParagraphPosition(p) == CHOOSE i \in 1..Len(paragraphs) : paragraphs[i] = p

\* the strings the collaborator returned in this run
Returned == UNION {Range(all_translated_texts[i]) : i \in 1..Len(all_translated_texts)}

\* C10: the payload list is ordered by (paragraph, block, leaf), and the string
\* returned at index i is found only in the wrapper of the block that handed in
\* payload i, at the place of the leaf that did, and nowhere else.
C10_PositionCorrelation ==
    /\ FlatIds(text_to_original_map) = [i \in 1..Len(all_texts_to_translate) |-> i]
    /\ \A k \in 1..Len(text_to_original_map) :
          LET info == text_to_original_map[k]
          IN /\ info.paragraph \in Range(paragraphs)
             /\ \A j \in 1..Len(info.text_ids) :
                   all_texts_to_translate[info.text_ids[j]] = Contribution(info, j)
             /\ \A l \in (k + 1)..Len(text_to_original_map) :
                   LET next == text_to_original_map[l]
                   IN \/ ParagraphPosition(info.paragraph) < ParagraphPosition(next.paragraph)
                      \/ /\ info.paragraph = next.paragraph
                         /\ info.block_index < next.block_index
    /\ pc \in {"apply", "done"} =>
          /\ \A k \in 1..Len(wrappers) :
                wrappers[k] # 0 =>
                    TextOf(TermOf(tree, wrappers[k]))
                        = Expected(text_to_original_map[k], all_translated_texts)
          /\ \A n \in Nodes(tree) :
                (Attached(tree, n) /\ Range(tree[n].txt) \cap Returned # {}) =>
                    \E k \in 1..Len(wrappers) :
                        wrappers[k] # 0 /\ IsAncestor(tree, wrappers[k], n)

\* C10: a structure-preserving run over several blocks, one of several leaves,
\* all answered, has returned
C10_Witness ==
    /\ pc = "done"
    /\ preserve_tags_structure
    /\ Len(text_to_original_map) >= 2
    /\ \E k \in 1..Len(text_to_original_map) : Len(text_to_original_map[k].text_ids) >= 2
    /\ Len(all_translated_texts) = Len(all_texts_to_translate)

\* C8: a backend's translate_batch returns as many strings as it was given, the
\* one at position i being the service's translation of texts[i] (nothing for a
\* blank text) or texts[i] itself, and texts[i] itself wherever the request for
\* it failed, the session parameters were missing or the answer was unusable.
C8_SameLengthAndPositions ==
    spc = "returned" =>
        /\ Len(translations) = Len(texts)
        /\ \A i \in 1..Len(texts) :
              \/ translations[i] = texts[i]
              \/ translations[i] = ServiceTranslate(i, texts[i])
              \/ strip(texts[i]) = <<>> /\ translations[i] = <<>>
        /\ \A i \in 1..Len(texts) :
              (\/ service.name \in {"bing", "yandex"} /\ service.translate_sid = ""
               \/ replies # <<>> /\ service.name = "yandex" /\ replies[1] # "ok"
               \/ /\ service.name \in {"google", "bing", "argos"}
                  /\ Len(replies) = Len(texts) /\ replies[i] # "ok"
                  /\ strip(texts[i]) # <<>>)
              => translations[i] = texts[i]

\* C11: every wrapper built in the write-back phase stands immediately before
\* its own block's end marker, as its sibling; a block without an end marker has
\* its wrapper as the last child of the paragraph; and a run that has begun to
\* write back does not abort.
C11_WrapperBeforeOwnMarker ==
    /\ pc \in {"apply", "done"} =>
          \A k \in 1..Len(wrappers) :
              wrappers[k] # 0 =>
                  LET info == text_to_original_map[k]
                      parent == tree[wrappers[k]].par
                  IN IF info.block.end_marker # 0
                     THEN /\ parent # 0
                          /\ parent = tree[info.block.end_marker].par
                          /\ next_sibling(tree, wrappers[k]) = info.block.end_marker
                     ELSE /\ parent = info.paragraph
                          /\ next_sibling(tree, wrappers[k]) = 0
    /\ pc = "aborted" => (calls = 0 /\ wrappers = <<>>)

\* C11: a run has written back the wrappers of several blocks
C11_Witness ==
    /\ pc = "done"
    /\ Len(wrappers) >= 2
    /\ \A k \in 1..Len(wrappers) : wrappers[k] # 0

\* C12: whatever the document's shape (no head, no body, no html element), no
\* run of translate_html_content aborts.
C12_NeverAborts == pc # "aborted"

\* C13: _find_paragraphs on the empty document (no elements, no text) returns
\* the empty list and marks no node, the document root included.
C13_EmptyDocumentEmptyList ==
    (pc = "segmented" /\ html_content.kids = <<>>) =>
        /\ paragraphs = <<>>
        /\ \A n \in Nodes(tree) : ~IsParagraph(tree, n)

\* C14: when a run has returned, every paragraph of the segmenter's list
\* carries the paragraph marker and has been counted once: processed_count is
\* the length of the list.
C14_EveryParagraphCountedOnce ==
    pc = "done" =>
        /\ processed_count = Len(paragraphs)
        /\ \A i \in 1..Len(paragraphs) : IsParagraph(tree, paragraphs[i])

\* C15: two runs on the same input document with the same collaborator
\* answers, by the same or by another HTMLProcessor, return the same output.
C15_Deterministic ==
    (pc = "done" /\ previous_output # <<>>
       /\ all_translated_texts = previous_output[1].answer) =>
        TermOf(tree, 1) = previous_output[1].output

\* C16: a comment leaf is inert: it stays a comment where it was in the
\* document, the line-break rule never takes it into a synthetic container,
\* no block collects it and no payload is made of it.
C16_CommentsInert ==
    /\ \A n \in Nodes(tree) : IsComment(tree, n) => Attached(tree, n)
    /\ \A n \in Nodes(tree) :
          (IsTag(tree, n) /\ has_attr(tree, n, "data-hfit-generated")) =>
              \A c \in Nodes(tree) :
                  IsComment(tree, c) => TextOf(TermOf(tree, n)) # tree[c].txt
    /\ \A k \in 1..Len(extracted) :
          \A n \in Range(BlockNodes(extracted[k].blocks)) : ~IsComment(tree, n)

\* the text container of a wrapper: font > font > font
InnerContainer(t, w) == t[t[w].kids[2]].kids[1]

\* C17: in simple mode each block with text yields exactly one payload, the
\* stripped texts of its leaves in block order joined by single spaces, and
\* exactly one wrapper, whose inner container holds the returned string as its
\* only child, a text, with none of the block's tags.
C17_SimpleOnePayloadOneWrapper ==
    (pc = "done" /\ ~preserve_tags_structure) =>
        \A e \in 1..Len(extracted) :
            \A j \in 1..Len(extracted[e].blocks) :
                LET block == extracted[e].blocks[j]
                    mine == {k \in 1..Len(text_to_original_map) :
                                /\ text_to_original_map[k].paragraph = extracted[e].paragraph
                                /\ text_to_original_map[k].block_index = j
                                /\ text_to_original_map[k].block = block}
                IN simple_block_text(tree, block.nodes) # <<>> =>
                      /\ Cardinality(mine) = 1
                      /\ \A k \in mine :
                            LET id == text_to_original_map[k].text_ids
                            IN /\ Len(id) = 1
                               /\ all_texts_to_translate[id[1]]
                                     = simple_block_text(tree, block.nodes)
                               /\ wrappers[k] # 0
                               /\ id[1] <= Len(all_translated_texts)
                               /\ TermOf(tree, InnerContainer(tree, wrappers[k])).kids
                                     = <<Text(all_translated_texts[id[1]])>>

\* C18: in structure-preserving mode the leaves walked in the pruned copy of a
\* block's common ancestor are, in number and document order, exactly the
\* block's own leaves, and each is submitted as its own payload.
C18_PrunedCopyHoldsOwnLeaves ==
    \A k \in 1..Len(text_to_original_map) :
        LET info == text_to_original_map[k]
            walked == find_text_nodes(info.ancestor_copy)
        IN info.type = "advanced_block" =>
              /\ walked = [j \in 1..Len(info.block.nodes) |-> tree[info.block.nodes[j]].txt]
              /\ Len(info.text_ids) = Len(info.block.nodes)
              /\ \A j \in 1..Len(info.text_ids) :
                    all_texts_to_translate[info.text_ids[j]]
                        = strip(tree[info.block.nodes[j]].txt)

\* C19: escaping and then unescaping gives the string back:
\* unescape_html(escape_html(t)) = t for every string t.
C19_EscapeRoundTrip ==
    (spc = "returned" /\ translations # <<>>) => translations[1] = texts[1]

\* the elements process_element was called on and did not skip: body (the
\* document without one) and the elements below it outside non-translatable ones
Walked(t, n) ==
    LET body == find_tag(t, 1, "BODY")
    IN /\ IsTag(t, n)
       /\ n # 1
       /\ IF body # 0 THEN n = body \/ IsAncestor(t, body, n) ELSE Attached(t, n)
       /\ ~is_no_translate(t, n)
       /\ ~InNoTranslate(t, n)

\* C20: after the segmenter's walk, and at the end of the run, body and every
\* element below it that the walk visited carry data-hfit-walked with the
\* run's session id, marked as a paragraph or not.
C20_WalkedCarrySessionId ==
    /\ (pc = "collect" /\ pi = 1) =>
          \A n \in Nodes(tree) :
              Walked(tree, n) => <<"data-hfit-walked", session_id>> \in tree[n].attrs
    /\ (pc = "done" /\ run = 1) =>
          \A n \in Nodes(tree) :
              (Walked(tree, n) /\ ~IsEndMarker(tree, n)) =>
                  <<"data-hfit-walked", session_id>> \in tree[n].attrs

\* the synthetic containers of the line-break rule
IsGenerated(t, n) == IsTag(t, n) /\ has_attr(t, n, "data-hfit-generated")

\* PageElement.previous_sibling (0 for None)
previous_sibling(t, n) ==
    IF t[n].par = 0 THEN 0
    ELSE LET sibs == t[t[n].par].kids
             i == IndexIn(sibs, n)
         IN IF i > 1 THEN sibs[i - 1] ELSE 0

\* n comes after a <br>, whitespace-only text aside
RECURSIVE FollowsBreak(_, _)
FollowsBreak(t, n) ==
    LET p == previous_sibling(t, n)
    IN /\ p # 0
       /\ \/ IsTag(t, p) /\ t[p].tag = "BR"
          \/ t[p].kind = "text" /\ strip(t[p].txt) = <<>> /\ FollowsBreak(t, p)

PositionIn(s, x) == CHOOSE i \in 1..Len(s) : s[i] = x

\* C21: the segmenter wraps the text run that follows a line break in a new
\* span, marked as a paragraph and returned after the element that holds it;
\* it never marks the break itself, and what it wraps is text that is not
\* whitespace only: the document's text is the same before and after.
C21_BreakRule ==
    pc = "segmented" =>
        /\ \A n \in Nodes(tree) :
              (IsTag(tree, n) /\ tree[n].tag = "BR") =>
                  ~IsParagraph(tree, n) /\ n \notin Range(paragraphs)
        /\ \A n \in Nodes(tree) :
              (IsTag(tree, n) /\ tree[n].tag = "BR" /\ Walked(tree, n)) =>
                  LET nxt == next_sibling(tree, n)
                  IN (nxt # 0 /\ tree[nxt].kind = "text") =>
                         br_text_nodes(tree, nxt, <<>>) = <<>>
        /\ \A g \in Nodes(tree) :
              (IsGenerated(tree, g) /\ Attached(tree, g)) =>
                  /\ IsParagraph(tree, g)
                  /\ g \in Range(paragraphs)
                  /\ FollowsBreak(tree, g)
                  /\ Len(tree[g].kids) = 1
                  /\ IsTextLeaf(tree, tree[g].kids[1])
                  /\ tree[g].par \in Range(paragraphs)
                  /\ PositionIn(paragraphs, tree[g].par) < PositionIn(paragraphs, g)
        /\ TextOf(TermOf(tree, 1)) = TextOf(html_content)

\* the child of the document that n lies in
RECURSIVE Outermost(_, _)
Outermost(t, n) == IF t[n].par = 1 THEN n ELSE Outermost(t, t[n].par)

\* C22: a non-empty text leaf whose ancestor elements are all inline-text
\* elements has its outermost inline element marked as a paragraph and
\* returned in the list.
C22_OutermostInlineMarked ==
    pc = "segmented" =>
        \A n \in Nodes(tree) :
            (/\ IsTextLeaf(tree, n)
             /\ Attached(tree, n)
             /\ tree[n].par # 1
             /\ \A a \in Nodes(tree) :
                   (a # 1 /\ IsAncestor(tree, a, n)) =>
                       /\ tree[a].tag \in HTML_TAGS_INLINE_TEXT
                       /\ ~is_no_translate(tree, a)
                       /\ ~IsGenerated(tree, a)) =>
                /\ IsParagraph(tree, Outermost(tree, n))
                /\ Outermost(tree, n) \in Range(paragraphs)

\* the attached nodes in document order
RECURSIVE Preorder(_, _)
RECURSIVE PreorderKids(_, _)
Preorder(t, n) == <<n>> \o PreorderKids(t, t[n].kids)

PreorderKids(t, ks) ==
    IF ks = <<>> THEN <<>> ELSE Preorder(t, Head(ks)) \o PreorderKids(t, Tail(ks))

Precedes(t, a, b) ==
    LET order == Preorder(t, 1)
    IN PositionIn(order, a) < PositionIn(order, b)

\* the direct child of ca that holds n (n itself when it is one), by identity
RECURSIVE ChildHolding(_, _, _)
ChildHolding(t, ca, n) ==
    IF t[n].par = ca \/ t[n].par = 0 THEN n ELSE ChildHolding(t, ca, t[n].par)

\* a comes right before b among its siblings, end markers between them aside
RightBefore(t, a, b) ==
    /\ t[a].par = t[b].par
    /\ t[a].par # 0
    /\ LET sibs == t[t[a].par].kids
           i == IndexIn(sibs, a)
           j == IndexIn(sibs, b)
       IN i < j /\ \A k \in (i + 1)..(j - 1) : IsEndMarker(t, sibs[k])

\* C23: a block's end marker stands immediately before the paragraph element
\* that bounds the block when there is one, immediately after the direct child
\* of the common ancestor that holds the block's last leaf otherwise, and in
\* every case after all leaves of its block in document order.
C23_EndMarkerPosition ==
    pc = "collect" =>
        \A e \in 1..Len(extracted) :
            \A j \in 1..Len(extracted[e].blocks) :
                LET block == extracted[e].blocks[j]
                    next_paragraph_element == extracted[e].bounding[j]
                    last_text == block.nodes[Len(block.nodes)]
                IN /\ Attached(tree, block.end_marker)
                   /\ IF next_paragraph_element # 0
                      THEN RightBefore(tree, block.end_marker, next_paragraph_element)
                      ELSE RightBefore(tree,
                               ChildHolding(tree, block.common_ancestor, last_text),
                               block.end_marker)
                   /\ \A n \in Range(block.nodes) : Precedes(tree, n, block.end_marker)

C23_Witness ==
    /\ pc = "collect"
    /\ \E e \in 1..Len(extracted) :
          \E j \in 1..Len(extracted[e].blocks) :
              LET block == extracted[e].blocks[j]
                  last_text == block.nodes[Len(block.nodes)]
              IN /\ extracted[e].bounding[j] = 0
                 /\ Len(block.nodes) >= 2
                 /\ ChildHolding(tree, block.common_ancestor, last_text) # last_text

\* the members of s that are members of r too, in the order of s
Surviving(s, r) == SelectSeq(s, LAMBDA x : x \in Range(r))

\* C24: an end marker in the live document is never removed or moved: in every
\* step of a run each attached end marker stays an attached end marker under
\* the same parent and in the same order with the siblings it had, so the
\* number of end markers in the live tree never decreases.
C24_EndMarkersStay ==
    [][(tree # <<>> /\ tree' # <<>>) =>
          \A n \in Nodes(tree) :
              (IsEndMarker(tree, n) /\ Attached(tree, n)) =>
                  /\ n \in Nodes(tree')
                  /\ IsEndMarker(tree', n)
                  /\ Attached(tree', n)
                  /\ tree'[n].par = tree[n].par
                  /\ Surviving(tree'[tree[n].par].kids, tree[tree[n].par].kids)
                        = Surviving(tree[tree[n].par].kids, tree'[tree[n].par].kids)]_vars

C24_Witness ==
    /\ pc = "done"
    /\ \E k \in 1..Len(wrappers) : wrappers[k] # 0
    /\ \E e \in 1..Len(extracted) :
          /\ Len(extracted[e].blocks) >= 2
          /\ \A b \in Range(extracted[e].blocks) :
                IsEndMarker(tree, b.end_marker) /\ Attached(tree, b.end_marker)

\* C26: every block _extract_semantic_blocks returns has leaves, a common
\* ancestor and an end marker attached to the live tree; its marker was not
\* appended to the common ancestor for want of a place, and the write-back
\* never has to append a wrapper to the paragraph.
C26_BlocksWellFormed ==
    /\ \A e \in 1..Len(extracted) :
          \A j \in 1..Len(extracted[e].blocks) :
              LET block == extracted[e].blocks[j]
              IN /\ block.nodes # <<>>
                 /\ block.common_ancestor # 0
                 /\ block.end_marker # 0
                 /\ IsEndMarker(tree, block.end_marker)
                 /\ Attached(tree, block.end_marker)
                 /\ ~extracted[e].appended[j]
    /\ \A k \in 1..Len(text_to_original_map) :
          text_to_original_map[k].block.end_marker # 0

C26_Witness ==
    /\ pc = "done"
    /\ Len(text_to_original_map) >= 2
    /\ \E e \in 1..Len(extracted) : Len(extracted[e].blocks) >= 2
    /\ \A k \in 1..Len(wrappers) : wrappers[k] # 0

\* C27: within one paragraph the end marker of a block precedes every leaf of
\* the next block in document order, and after the write-back each wrapper
\* stands after its own block's leaves, before the next block's leaves and
\* before the next block's wrapper.
C27_BlocksInOrder ==
    /\ pc \in {"collect", "apply", "done"} =>
          \A e \in 1..Len(extracted) :
              \A j \in 1..(Len(extracted[e].blocks) - 1) :
                  \A n \in Range(extracted[e].blocks[j + 1].nodes) :
                      Precedes(tree, extracted[e].blocks[j].end_marker, n)
    /\ pc = "done" =>
          \A k \in 1..Len(text_to_original_map) :
              wrappers[k] # 0 =>
                  /\ \A n \in Range(text_to_original_map[k].block.nodes) :
                        Precedes(tree, n, wrappers[k])
                  /\ \A k2 \in 1..Len(text_to_original_map) :
                        (/\ text_to_original_map[k2].paragraph
                               = text_to_original_map[k].paragraph
                         /\ text_to_original_map[k2].block_index
                               > text_to_original_map[k].block_index) =>
                            /\ \A n \in Range(text_to_original_map[k2].block.nodes) :
                                  Precedes(tree, wrappers[k], n)
                            /\ wrappers[k2] # 0 =>
                                  Precedes(tree, wrappers[k], wrappers[k2])

\* C28: text inside a non-translatable element (by tag, class notranslate or
\* translate="no") that lies inside a paragraph is never collected into a
\* block and never submitted, in simple mode and in structure-preserving mode.
C28_NoTranslateTextLeftAlone ==
    (run = 1 /\ pc \in {"collect", "apply", "done"}) =>
        /\ \A e \in 1..Len(extracted) :
              \A n \in Range(BlockNodes(extracted[e].blocks)) : ~InNoTranslate(tree, n)
        /\ \A k \in 1..Len(text_to_original_map) :
              LET info == text_to_original_map[k]
                  own == SelectSeq(info.block.nodes, LAMBDA n : ~InNoTranslate(tree, n))
              IN IF info.type = "advanced_block"
                 THEN \A j \in 1..Len(info.text_ids) :
                          \E n \in Range(own) :
                              all_texts_to_translate[info.text_ids[j]] = strip(tree[n].txt)
                 ELSE all_texts_to_translate[info.text_ids[1]]
                          = simple_block_text(tree, own)

\* the nearest element before n among its siblings (0: none)
RECURSIVE PreviousElement(_, _)
PreviousElement(t, n) ==
    LET p == previous_sibling(t, n)
    IN IF p = 0 \/ IsTag(t, p) THEN p ELSE PreviousElement(t, p)

\* an element the first pass takes to its marking decision
Decided(t, n) == Walked(t, n) /\ t[n].tag # "BR"

IsInline(t, n) ==
    \/ t[n].tag \in HTML_TAGS_INLINE_TEXT
    \/ t[n].tag \in HTML_TAGS_INLINE_IGNORE

C30_GuardReleased ==
    [][/\ spc' = "idle" => ~service'.fetch_lock
       /\ (spc = "fetching" /\ spc' = "fetching") => service' = service]_vars

C30_Witness ==
    /\ spc = "idle"
    /\ \E i, j, k, l \in 1..Len(replies) :
          /\ replies[i] = "reentered"
          /\ replies[j] = "failed"
          /\ replies[k] = "fetched"
          /\ replies[l] = "valid"
====
